---- MODULE Spec2Model ----
(***************************************************************************)
(* Model of the two command-line programs of postgres-mcp's agents folder: *)
(*                                                                         *)
(*   agents/pg_agent.py    the interactive session loop (main, run)        *)
(*   agents/sse_client.py  the streaming probe (test_sse_endpoint)         *)
(*                                                                         *)
(* A text is a sequence of one-character strings, so that prefixes,        *)
(* separators, trimming and substring search are computed, not assumed.    *)
(* The two programs are independent: Spec runs the session loop and        *)
(* SpecProbe runs the probe; each leaves the other's variables alone.      *)
(***************************************************************************)
EXTENDS Integers, Sequences, FiniteSets, TLC

VARIABLES
    pc,         \* where main()/run() is: "main", "AwaitingInput",
                \* "AwaitingAgentResponse", "unwinding", "done"
    server,     \* the PostgresMCPServer subprocess: "unstarted", "open", "closed"
    acquired,   \* number of times the server context was entered
    released,   \* number of times the server context was exited
    context,    \* run(): the list `context`
    submitted,  \* the `input=` argument of the latest Runner.run call
    calls,      \* number of Runner.run calls started
    inflight,   \* number of Runner.run calls started and not yet resolved
    stdout,     \* what print() wrote, one element per call
    prompts,    \* number of times input() showed its prompt
    questions,  \* the values input() returned, in order
    outcomes,   \* per resolved Runner.run call: "ok" or "fail"
    finals,     \* result.final_output of the successful calls, in order
    fault,      \* the exception propagating out of run(), or "none"
    ppc,        \* where test_sse_endpoint() is: "connect", "reading", "done"
    lines,      \* the raw body lines the response has yielded so far
    closed,     \* the server closed the response body
    pout,       \* what the probe's print() wrote, one element per call
    pfault      \* the exception propagating out of the probe, or "none"

sessionVars ==
    << pc, server, acquired, released, context, submitted, calls, inflight,
       stdout, prompts, questions, outcomes, finals, fault >>

probeVars == << ppc, lines, closed, pout, pfault >>

vars ==
    << pc, server, acquired, released, context, submitted, calls, inflight,
       stdout, prompts, questions, outcomes, finals, fault,
       ppc, lines, closed, pout, pfault >>

(***************************************************************************)
(* Bounds of the model.                                                    *)
(***************************************************************************)
MaxCycles == 3

MaxLines == 4

(***************************************************************************)
(* pg_agent.py: the string literals.                                       *)
(***************************************************************************)
SystemSeed ==
    << "S", "Y", "S", "T", "E", "M", ":", " ", "T", "h", "e", " ", "f", "o",
       "l", "l", "o", "w", "i", "n", "g", " ", "q", "u", "e", "s", "t", "i",
       "o", "n", "s", " ", "a", "r", "e", " ", "a", "b", "o", "u", "t", " ",
       "t", "h", "e", " ", "d", "a", "t", "a", "b", "a", "s", "e", " ", "s",
       "e", "r", "v", "e", "r", " ", "'", "p", "o", "s", "t", "g", "r", "e",
       "s", ":", "/", "/", "p", "o", "s", "t", "g", "r", "e", "s", ":", "p",
       "o", "s", "t", "g", "r", "e", "s", "@", "l", "o", "c", "a", "l", "h",
       "o", "s", "t", ":", "5", "4", "3", "2", "'", ".", " ", "P", "l", "e",
       "a", "s", "e", " ", "a", "n", "s", "w", "e", "r", " ", "t", "h", "e",
       " ", "q", "u", "e", "s", "t", "i", "o", "n", "s", " ", "i", "n", " ",
       "d", "e", "t", "a", "i", "l", "s", " ", "w", "i", "t", "h", " ", "a",
       "l", "l", " ", "t", "h", "e", " ", "i", "n", "f", "o", "r", "m", "a",
       "t", "i", "o", "n", " ", "t", "h", "e", " ", "t", "o", "o", "l", " ",
       "p", "r", "o", "v", "i", "d", "e", "s", "." >>

UserPrefix == << "U", "S", "E", "R", ":", " " >>

AssistantPrefix == << "A", "S", "S", "I", "S", "T", "A", "N", "T", ":", " " >>

Separator == << "\n", "\n" >>

TracePrefix ==
    << "V", "i", "e", "w", " ", "t", "r", "a", "c", "e", ":", " ", "h", "t",
       "t", "p", "s", ":", "/", "/", "p", "l", "a", "t", "f", "o", "r", "m",
       ".", "o", "p", "e", "n", "a", "i", ".", "c", "o", "m", "/", "t", "r",
       "a", "c", "e", "s", "/" >>

(***************************************************************************)
(* The inputs the model draws from: what the operator types (input()       *)
(* returns the line without its newline, so a question holds no "\n"),     *)
(* what the agent answers (any text, blank lines and role tags included),  *)
(* and the trace ids gen_trace_id() may return.                            *)
(***************************************************************************)
Questions ==
    { << >>,
      << "f", "o", "o" >>,
      << "U", "S", "E", "R", ":", " ", "x" >> }

FinalOutputs ==
    { << >>,
      << "u", "s", "e", "r", "s", ",", " ", "o", "r", "d", "e", "r", "s" >>,
      << "o", "k", "\n", "\n", "U", "S", "E", "R", ":", " ", "x" >> }

TraceIds ==
    { << "t", "r", "a", "c", "e", "_", "0", "a" >>,
      << "t", "r", "a", "c", "e", "_", "1", "b" >> }

(***************************************************************************)
(* pg_agent.py: the pure parts of run() and main().                        *)
(***************************************************************************)
\* sep.join(entries)
RECURSIVE Join(_, _)
Join(sep, entries) ==
    IF entries = << >> THEN << >>
    ELSE IF Len(entries) = 1 THEN entries[1]
    ELSE entries[1] \o sep \o Join(sep, Tail(entries))

\* Variant: the entry is stored without its role tag.
UserEntryUntagged(question) == question

\* f"USER: {question}"
UserEntry(question) == UserPrefix \o question

\* Variant: the reply is stored without its role tag.
AssistantEntryUntagged(final_output) == final_output

\* f"ASSISTANT: {result.final_output}"
AssistantEntry(final_output) == AssistantPrefix \o final_output

\* Variant: the entries are joined by a single line feed.
AgentInputSingleNewline(ctx) == Join(<< "\n" >>, ctx)

\* "\n\n".join(context)
AgentInput(ctx) == Join(Separator, ctx)

\* print(x): one write of the text followed by a newline
WriteLine(out, text) == Append(out, text \o << "\n" >>)

\* f"View trace: https://platform.openai.com/traces/{trace_id}\n"
TraceLine(trace_id) == TracePrefix \o trace_id \o << "\n" >>

(***************************************************************************)
(* pg_agent.py: the steps of main() and run().                             *)
(***************************************************************************)
\* main(): `async with PostgresMCPServer() as server` is entered, the trace
\* line is printed, run() builds the agent and seeds the context, and the
\* loop reaches its first input().
Start ==
    /\ pc = "main"
    /\ \E trace_id \in TraceIds :
          stdout' = WriteLine(stdout, TraceLine(trace_id))
    /\ server' = "open"
    /\ acquired' = acquired + 1
    /\ context' = << SystemSeed >>
    /\ pc' = "AwaitingInput"
    /\ UNCHANGED << released, submitted, calls, inflight, prompts, questions,
                    outcomes, finals, fault >>
    /\ UNCHANGED probeVars

\* main(): entering the server context raises (the subprocess does not
\* start); nothing else of main() runs.
StartFail ==
    /\ pc = "main"
    /\ fault' = "StartupError"
    /\ pc' = "done"
    /\ UNCHANGED << server, acquired, released, context, submitted, calls,
                    inflight, stdout, prompts, questions, outcomes, finals >>
    /\ UNCHANGED probeVars

\* Variant: the agent call is started but not awaited before the next prompt.
ReadInputNotAwaited ==
    /\ pc = "AwaitingInput"
    /\ Len(questions) < MaxCycles
    /\ \E question \in Questions :
          /\ questions' = Append(questions, question)
          /\ context' = Append(context, UserEntry(question))
    /\ prompts' = prompts + 1
    /\ submitted' = AgentInput(context')
    /\ calls' = calls + 1
    /\ inflight' = inflight + 1
    /\ UNCHANGED << pc, server, acquired, released, stdout, outcomes, finals,
                    fault >>
    /\ UNCHANGED probeVars

\* run(): input() returns a line; it is appended as a USER entry and the
\* agent is called with the joined context.
ReadInput ==
    /\ pc = "AwaitingInput"
    /\ Len(questions) < MaxCycles
    /\ \E question \in Questions :
          /\ questions' = Append(questions, question)
          /\ context' = Append(context, UserEntry(question))
    /\ prompts' = prompts + 1
    /\ submitted' = AgentInput(context')
    /\ calls' = calls + 1
    /\ inflight' = inflight + 1
    /\ pc' = "AwaitingAgentResponse"
    /\ UNCHANGED << server, acquired, released, stdout, outcomes, finals, fault >>
    /\ UNCHANGED probeVars

\* Variant: input() sits inside the try block, so EOFError is swallowed like
\* an agent failure and the loop prompts again.
ReadEOFSwallowed ==
    /\ pc = "AwaitingInput"
    /\ prompts < MaxCycles + 1
    /\ prompts' = prompts + 1
    /\ UNCHANGED << pc, server, acquired, released, context, submitted, calls,
                    inflight, stdout, questions, outcomes, finals, fault >>
    /\ UNCHANGED probeVars

\* run(): input() shows the prompt and raises EOFError; the call is outside
\* the try block, so the exception leaves run().
ReadEOF ==
    /\ pc = "AwaitingInput"
    /\ prompts' = prompts + 1
    /\ fault' = "EOFError"
    /\ pc' = "unwinding"
    /\ UNCHANGED << server, acquired, released, context, submitted, calls,
                    inflight, stdout, questions, outcomes, finals >>
    /\ UNCHANGED probeVars

\* Variant: the reply overwrites the question it answers.
AgentOkReplacesQuestion ==
    /\ pc = "AwaitingAgentResponse"
    /\ \E final_output \in FinalOutputs :
          /\ context' = [context EXCEPT ![Len(context)] =
                                            AssistantEntry(final_output)]
          /\ stdout' = WriteLine(stdout, final_output)
          /\ finals' = Append(finals, final_output)
    /\ outcomes' = Append(outcomes, "ok")
    /\ inflight' = inflight - 1
    /\ pc' = "AwaitingInput"
    /\ UNCHANGED << server, acquired, released, submitted, calls, prompts,
                    questions, fault >>
    /\ UNCHANGED probeVars

\* run(): Runner.run returns; the ASSISTANT entry is appended and the final
\* output printed.
AgentOk ==
    /\ pc = "AwaitingAgentResponse"
    /\ \E final_output \in FinalOutputs :
          /\ context' = Append(context, AssistantEntry(final_output))
          /\ stdout' = WriteLine(stdout, final_output)
          /\ finals' = Append(finals, final_output)
    /\ outcomes' = Append(outcomes, "ok")
    /\ inflight' = inflight - 1
    /\ pc' = "AwaitingInput"
    /\ UNCHANGED << server, acquired, released, submitted, calls, prompts,
                    questions, fault >>
    /\ UNCHANGED probeVars

\* Variant: the handler removes the unanswered question from the context.
AgentFailDropsQuestion ==
    /\ pc = "AwaitingAgentResponse"
    /\ context' = SubSeq(context, 1, Len(context) - 1)
    /\ outcomes' = Append(outcomes, "fail")
    /\ inflight' = inflight - 1
    /\ pc' = "AwaitingInput"
    /\ UNCHANGED << server, acquired, released, submitted, calls, stdout,
                    prompts, questions, finals, fault >>
    /\ UNCHANGED probeVars

\* Variant: the handler has no `continue`, so the print after the try block
\* runs on failure too and shows the previous cycle's output.
AgentFailFallsThrough ==
    /\ pc = "AwaitingAgentResponse"
    /\ finals # << >>
    /\ stdout' = WriteLine(stdout, finals[Len(finals)])
    /\ outcomes' = Append(outcomes, "fail")
    /\ inflight' = inflight - 1
    /\ pc' = "AwaitingInput"
    /\ UNCHANGED << server, acquired, released, context, submitted, calls,
                    prompts, questions, finals, fault >>
    /\ UNCHANGED probeVars

\* run(): Runner.run raises an Exception; `except Exception: continue`.
AgentFail ==
    /\ pc = "AwaitingAgentResponse"
    /\ outcomes' = Append(outcomes, "fail")
    /\ inflight' = inflight - 1
    /\ pc' = "AwaitingInput"
    /\ UNCHANGED << server, acquired, released, context, submitted, calls,
                    stdout, prompts, questions, finals, fault >>
    /\ UNCHANGED probeVars

\* run(): the awaited call is cancelled or interrupted (CancelledError,
\* KeyboardInterrupt): not an Exception, so the handler does not catch it.
AgentInterrupted ==
    /\ pc = "AwaitingAgentResponse"
    /\ fault' = "CancelledError"
    /\ inflight' = inflight - 1
    /\ pc' = "unwinding"
    /\ UNCHANGED << server, acquired, released, context, submitted, calls,
                    stdout, prompts, questions, outcomes, finals >>
    /\ UNCHANGED probeVars

\* Variant: the server is not held by `async with`, so nothing exits it.
MainExitNoTeardown ==
    /\ pc = "unwinding"
    /\ pc' = "done"
    /\ UNCHANGED << server, acquired, released, context, submitted, calls,
                    inflight, stdout, prompts, questions, outcomes, finals,
                    fault >>
    /\ UNCHANGED probeVars

\* main(): the exception leaves the `with trace` and `async with` blocks; the
\* server context is exited and the process ends.
MainExit ==
    /\ pc = "unwinding"
    /\ server' = "closed"
    /\ released' = released + 1
    /\ pc' = "done"
    /\ UNCHANGED << acquired, context, submitted, calls, inflight, stdout,
                    prompts, questions, outcomes, finals, fault >>
    /\ UNCHANGED probeVars

(***************************************************************************)
(* sse_client.py: the string literals.                                     *)
(***************************************************************************)
StatusPrefix == << "S", "t", "a", "t", "u", "s", ":", " " >>

HeadersPrefix == << "H", "e", "a", "d", "e", "r", "s", ":", " " >>

ReceivedPrefix == << "R", "e", "c", "e", "i", "v", "e", "d", ":", " " >>

SuccessMessage ==
    << "S", "S", "E", " ", "t", "e", "s", "t", " ", "s", "u", "c", "c", "e",
       "s", "s", "f", "u", "l", "!" >>

Marker == << "h", "e", "a", "r", "t", "b", "e", "a", "t" >>

(***************************************************************************)
(* The inputs the probe's model draws from.  A raw line is a sequence of   *)
(* bytes as the response body yields it, its line feed included; an ASCII  *)
(* byte is written as its character and any other byte by its hex value.   *)
(***************************************************************************)
Statuses == { 200, 503 }

HeaderTexts ==
    { << "<", "C", "I", "M", "u", "l", "t", "i", "D", "i", "c", "t", "P", "r",
         "o", "x", "y", "(", "'", "C", "o", "n", "t", "e", "n", "t", "-", "T",
         "y", "p", "e", "'", ":", " ", "'", "t", "e", "x", "t", "/", "e", "v",
         "e", "n", "t", "-", "s", "t", "r", "e", "a", "m", "'", ")", ">" >> }

RawLines ==
    { << "\n" >>,
      << "d", "a", "t", "a", ":", " ", "h", "e", "a", "r", "t", "b", "e", "a",
         "t", "\n" >>,
      << "d", "a", "t", "a", ":", " ", "t", "i", "c", "k", "\n" >>,
      << " ", ":", " ", "h", "e", "a", "r", "t", "b", "e", "a", "t", " ", "\r",
         "\n" >>,
      << "d", "a", "t", "a", ":", " ", "h", "e", "a", "r", "t", "b", "e", "a",
         "\n" >>,
      << "0xC2", "0xA0", "\t", "\n" >>,
      << "d", "0xFF", "\n" >> }

(***************************************************************************)
(* sse_client.py: the pure parts of test_sse_endpoint().                   *)
(***************************************************************************)
\* The bytes above 0x7F the model uses.
HighBytes == { "0xC2", "0xA0", "0xFF" }

\* bytes.decode("utf-8") succeeds: every byte is ASCII or part of a
\* well-formed two-byte sequence (here 0xC2 0xA0, the no-break space).
RECURSIVE Decodable(_)
Decodable(raw) ==
    IF raw = << >> THEN TRUE
    ELSE IF Head(raw) \notin HighBytes THEN Decodable(Tail(raw))
    ELSE /\ Len(raw) >= 2
         /\ Head(raw) = "0xC2"
         /\ raw[2] = "0xA0"
         /\ Decodable(Tail(Tail(raw)))

\* bytes.decode("utf-8"), for a decodable line.
RECURSIVE Decode(_)
Decode(raw) ==
    IF raw = << >> THEN << >>
    ELSE IF Head(raw) \notin HighBytes THEN << Head(raw) >> \o Decode(Tail(raw))
    ELSE << "U+00A0" >> \o Decode(Tail(Tail(raw)))

\* The characters str.strip() removes (str.isspace) among those the model uses.
Whitespace == { " ", "\t", "\n", "\r", "\f", "U+000B", "U+0085", "U+00A0" }

RECURSIVE LStrip(_)
LStrip(s) ==
    IF s # << >> /\ Head(s) \in Whitespace THEN LStrip(Tail(s)) ELSE s

RECURSIVE RStrip(_)
RStrip(s) ==
    IF s # << >> /\ s[Len(s)] \in Whitespace
    THEN RStrip(SubSeq(s, 1, Len(s) - 1))
    ELSE s

\* str.strip()
Strip(s) == RStrip(LStrip(s))

\* sub in s
Contains(s, sub) ==
    \E i \in 0 .. (Len(s) - Len(sub)) : SubSeq(s, i + 1, i + Len(sub)) = sub

\* str(n) for n >= 0
Digit(d) == << "0", "1", "2", "3", "4", "5", "6", "7", "8", "9" >>[d + 1]

RECURSIVE IntToText(_)
IntToText(n) ==
    IF n < 10 THEN << Digit(n) >>
    ELSE IntToText(n \div 10) \o << Digit(n % 10) >>

\* The body of the `async for` loop for one raw line.
ProcessLine(out, raw) ==
    LET line == Strip(Decode(raw)) IN
    IF line # << >>
    THEN LET received == WriteLine(out, ReceivedPrefix \o line) IN
         IF Contains(line, Marker)
         THEN WriteLine(received, SuccessMessage)
         ELSE received
    ELSE out

(***************************************************************************)
(* sse_client.py: the steps of test_sse_endpoint().                        *)
(***************************************************************************)
\* session.get(...) answers; the status and the headers are printed.
Connect ==
    /\ ppc = "connect"
    /\ \E status \in Statuses, headers \in HeaderTexts :
          pout' = WriteLine(WriteLine(pout, StatusPrefix \o IntToText(status)),
                            HeadersPrefix \o headers)
    /\ ppc' = "reading"
    /\ UNCHANGED << lines, closed, pfault >>
    /\ UNCHANGED sessionVars

\* session.get(...) raises; nothing is printed.
ConnectFail ==
    /\ ppc = "connect"
    /\ pfault' = "ClientError"
    /\ ppc' = "done"
    /\ UNCHANGED << lines, closed, pout >>
    /\ UNCHANGED sessionVars

\* Variant: the loop breaks once a line holds the marker.
ReadLineBreakOnMarker ==
    /\ ppc = "reading"
    /\ Len(lines) < MaxLines
    /\ \E raw \in RawLines :
          /\ Decodable(raw)
          /\ lines' = Append(lines, raw)
          /\ pout' = ProcessLine(pout, raw)
          /\ ppc' = IF Contains(Strip(Decode(raw)), Marker) THEN "done"
                    ELSE "reading"
    /\ UNCHANGED << closed, pfault >>
    /\ UNCHANGED sessionVars

\* One iteration of `async for line in response.content`.
ReadLine ==
    /\ ppc = "reading"
    /\ Len(lines) < MaxLines
    /\ \E raw \in RawLines :
          /\ Decodable(raw)
          /\ lines' = Append(lines, raw)
          /\ pout' = ProcessLine(pout, raw)
    /\ UNCHANGED << ppc, closed, pfault >>
    /\ UNCHANGED sessionVars

\* One iteration whose line is not UTF-8: decode raises, the probe ends.
DecodeFail ==
    /\ ppc = "reading"
    /\ Len(lines) < MaxLines
    /\ \E raw \in RawLines :
          /\ ~Decodable(raw)
          /\ lines' = Append(lines, raw)
    /\ pfault' = "UnicodeDecodeError"
    /\ ppc' = "done"
    /\ UNCHANGED << closed, pout >>
    /\ UNCHANGED sessionVars

\* The server closes the body: the iteration ends and the function returns.
StreamClose ==
    /\ ppc = "reading"
    /\ closed' = TRUE
    /\ ppc' = "done"
    /\ UNCHANGED << lines, pout, pfault >>
    /\ UNCHANGED sessionVars

ProbeIdle ==
    /\ ppc = "connect"
    /\ lines = << >>
    /\ closed = FALSE
    /\ pout = << >>
    /\ pfault = "none"

SessionIdle ==
    /\ pc = "main"
    /\ server = "unstarted"
    /\ acquired = 0
    /\ released = 0
    /\ context = << >>
    /\ submitted = << >>
    /\ calls = 0
    /\ inflight = 0
    /\ stdout = << >>
    /\ prompts = 0
    /\ questions = << >>
    /\ outcomes = << >>
    /\ finals = << >>
    /\ fault = "none"

Init == SessionIdle /\ ProbeIdle

Next ==
    \/ Start
    \/ StartFail
    \/ ReadInput
    \/ ReadEOF
    \/ AgentOk
    \/ AgentFail
    \/ AgentInterrupted
    \/ MainExit

Spec == Init /\ [][Next]_vars

NextProbe ==
    \/ Connect
    \/ ConnectFail
    \/ ReadLine
    \/ DecodeFail
    \/ StreamClose

SpecProbe == Init /\ [][NextProbe]_vars

(***************************************************************************)
(* Vocabulary of the properties, stated on the texts themselves.           *)
(***************************************************************************)
IsPrefix(p, s) == Len(p) <= Len(s) /\ SubSeq(s, 1, Len(p)) = p

IsSuffix(p, s) ==
    Len(p) <= Len(s) /\ SubSeq(s, Len(s) - Len(p) + 1, Len(s)) = p

\* The role an entry of the transcript is tagged with.
Role(entry) ==
    IF IsPrefix(<< "S", "Y", "S", "T", "E", "M", ":", " " >>, entry)
    THEN "SYSTEM"
    ELSE IF IsPrefix(<< "U", "S", "E", "R", ":", " " >>, entry)
    THEN "USER"
    ELSE IF IsPrefix(<< "A", "S", "S", "I", "S", "T", "A", "N", "T", ":", " " >>,
                     entry)
    THEN "ASSISTANT"
    ELSE "NONE"

IsUser(entry) == Role(entry) = "USER"

IsAssistant(entry) == Role(entry) = "ASSISTANT"

IsOk(outcome) == outcome = "ok"

\* Number of successful calls among the first k resolved calls.
OkUpTo(k) == Len(SelectSeq(SubSeq(outcomes, 1, k), IsOk))

NumOk == OkUpTo(Len(outcomes))

\* The session loop has started: run() has seeded its context.
Running == pc # "main" /\ fault # "StartupError"

\* Where the USER entry of cycle k stands in the transcript.
UserPos(k) == 1 + k + OkUpTo(k - 1)

\* Where entry i starts in the joined text, counted from 0.
RECURSIVE Offset(_, _)
Offset(entries, i) ==
    IF i = 1 THEN 0
    ELSE Offset(entries, i - 1) + Len(entries[i - 1]) + 2

\* text is the entries in order, a blank line (two line feeds) between
\* consecutive ones, and nothing else.
IsJoinOf(text, entries) ==
    /\ entries # << >>
    /\ Len(text) = Offset(entries, Len(entries)) + Len(entries[Len(entries)])
    /\ \A i \in 1 .. Len(entries) :
          LET at == Offset(entries, i) IN
          /\ SubSeq(text, at + 1, at + Len(entries[i])) = entries[i]
          /\ i < Len(entries) =>
                SubSeq(text, at + Len(entries[i]) + 1, at + Len(entries[i]) + 2)
                    = << "\n", "\n" >>

\* C1: when every agent call so far has succeeded, after N completed cycles
\* the transcript has exactly 1 + 2N entries: the SYSTEM seed, then for each
\* cycle k the entry "USER: <k-th input>" followed by "ASSISTANT: <k-th reply>".
C1_AllSucceedTranscript ==
    (Running /\ Len(questions) = Len(outcomes) /\ NumOk = Len(outcomes)) =>
        /\ Len(context) = 1 + 2 * Len(outcomes)
        /\ context[1] = SystemSeed
        /\ \A k \in 1 .. Len(outcomes) :
              /\ context[2 * k] = << "U", "S", "E", "R", ":", " " >> \o questions[k]
              /\ context[2 * k + 1] =
                    << "A", "S", "S", "I", "S", "T", "A", "N", "T", ":", " " >>
                        \o finals[k]

C1_Witness ==
    /\ pc = "AwaitingInput"
    /\ outcomes = << "ok", "ok" >>
    /\ Len(context) = 5
    /\ questions[1] # questions[2]
    /\ finals[1] # finals[2]

\* C2: a cycle whose agent call fails leaves exactly one USER entry and no
\* ASSISTANT entry in the transcript; the USER entry of every cycle stays
\* where it was put; and the input of the call after a failed cycle ends with
\* the unanswered USER entry, a blank line, and the new USER entry.
C2_FailedCycleKeepsUserEntry ==
    Running =>
        /\ Len(context) = 1 + Len(questions) + NumOk
        /\ \A k \in 1 .. Len(questions) :
              /\ context[UserPos(k)] =
                    << "U", "S", "E", "R", ":", " " >> \o questions[k]
              /\ (k <= Len(outcomes) /\ outcomes[k] = "fail") =>
                    /\ UserPos(k) = Len(context) \/ IsUser(context[UserPos(k) + 1])
                    /\ k < Len(questions) => UserPos(k + 1) = UserPos(k) + 1
        /\ ( /\ pc = "AwaitingAgentResponse"
             /\ outcomes # << >>
             /\ outcomes[Len(outcomes)] = "fail" ) =>
                LET n == Len(questions) IN
                IsSuffix(<< "\n", "\n", "U", "S", "E", "R", ":", " " >>
                            \o questions[n - 1]
                            \o << "\n", "\n", "U", "S", "E", "R", ":", " " >>
                            \o questions[n],
                         submitted)

C2_Witness ==
    /\ pc = "AwaitingAgentResponse"
    /\ outcomes = << "fail" >>
    /\ questions = << << "f", "o", "o" >>, << "U", "S", "E", "R", ":", " ", "x" >> >>
    /\ Len(context) = 3

\* While a call is outstanding: what was submitted, against the transcript.
C3_SubmittedOnCall ==
    pc = "AwaitingAgentResponse" =>
        /\ IsJoinOf(submitted, context)
        /\ context[Len(context)] =
              << "U", "S", "E", "R", ":", " " >> \o questions[Len(questions)]
        /\ IsSuffix(context[Len(context)], submitted)

\* C3: at every agent call the submitted input is the join of the whole
\* transcript, in order, with a blank line between consecutive entries; its
\* last entry is the USER entry of the current cycle; and starting the call
\* changes the transcript by that one appended USER entry only.
C3_SubmittedIsWholeTranscript ==
    /\ []C3_SubmittedOnCall
    /\ [][calls' # calls =>
             /\ calls' = calls + 1
             /\ pc' = "AwaitingAgentResponse"
             /\ context' = Append(context, context'[Len(context')])]_vars

C3_Witness ==
    /\ pc = "AwaitingAgentResponse"
    /\ outcomes = << "ok", "fail" >>
    /\ Len(context) = 5
    /\ Len(submitted) > Len(SystemSeed) + 8

\* C4: the transcript is append-only: in every step the transcript before
\* the step is a prefix of the transcript after it.
C4_AppendOnly == [][IsPrefix(context, context')]_vars

C4_Witness ==
    /\ pc = "AwaitingInput"
    /\ outcomes = << "fail", "ok", "fail" >>
    /\ Len(context) = 5

\* C5: a reply is printed exactly when the agent call succeeded, and it is
\* the final output appended as that cycle's ASSISTANT entry: after the
\* trace line, the k-th line printed is the k-th final output, the k-th
\* ASSISTANT entry is "ASSISTANT: " followed by it, and the number of replies
\* printed equals the number of successes and of ASSISTANT entries.
C5_PrintedIffSucceeded ==
    Running =>
        LET replies == Tail(stdout)
            answers == SelectSeq(context, IsAssistant)
        IN  /\ Len(replies) = NumOk
            /\ Len(replies) = Len(answers)
            /\ \A k \in 1 .. Len(replies) :
                  /\ replies[k] = finals[k] \o << "\n" >>
                  /\ answers[k] =
                        << "A", "S", "S", "I", "S", "T", "A", "N", "T", ":", " " >>
                            \o SubSeq(replies[k], 1, Len(replies[k]) - 1)

C5_Witness ==
    /\ pc = "AwaitingInput"
    /\ outcomes = << "ok", "fail" >>
    /\ Len(stdout) = 2
    /\ stdout[2] =
          << "u", "s", "e", "r", "s", ",", " ", "o", "r", "d", "e", "r", "s", "\n" >>
    /\ context[3] =
          << "A", "S", "S", "I", "S", "T", "A", "N", "T", ":", " ",
             "u", "s", "e", "r", "s", ",", " ", "o", "r", "d", "e", "r", "s" >>

\* One call per input read, and a call outstanding exactly while awaited.
C6_Shape ==
    /\ calls = Len(questions)
    /\ inflight = (IF pc = "AwaitingAgentResponse" THEN 1 ELSE 0)

\* C6: the loop starts in AwaitingInput; reading an input leads from
\* AwaitingInput to AwaitingAgentResponse with exactly one new agent call;
\* at most one call is outstanding at any time and none while an input is
\* read; and an agent call that succeeds or fails leads back to AwaitingInput.
C6_TwoStateCycle ==
    /\ []C6_Shape
    /\ [][/\ pc = "main" => pc' \in { "AwaitingInput", "done" }
          /\ Len(questions') # Len(questions) =>
                /\ pc = "AwaitingInput"
                /\ pc' = "AwaitingAgentResponse"
                /\ calls' = calls + 1
          /\ Len(outcomes') # Len(outcomes) =>
                /\ pc = "AwaitingAgentResponse"
                /\ pc' = "AwaitingInput"
                /\ calls' = calls]_vars

C6_Witness ==
    /\ pc = "AwaitingInput"
    /\ outcomes = << "fail", "ok" >>
    /\ calls = 2
    /\ inflight = 0

\* C7: the tool endpoint is acquired exactly once, before the first prompt
\* and the first agent call; while the loop runs it is open and was never
\* released or reacquired; and once the session has ended the endpoint that
\* was acquired has been torn down.
C7_EndpointLifecycle ==
    /\ acquired <= 1
    /\ released <= acquired
    /\ (prompts > 0 \/ calls > 0) => acquired = 1
    /\ pc \in { "AwaitingInput", "AwaitingAgentResponse", "unwinding" } =>
          server = "open" /\ acquired = 1 /\ released = 0
    /\ inflight > 0 => server = "open"
    /\ pc = "done" => server # "open" /\ released = acquired

C7_Witness ==
    /\ pc = "done"
    /\ fault = "EOFError"
    /\ calls = 2
    /\ server = "closed"
    /\ acquired = 1
    /\ released = 1

(***************************************************************************)
(* The streaming probe's output, stated line by line and without the       *)
(* probe's own helpers.                                                    *)
(***************************************************************************)
\* The characters a decodable raw line stands for.
RECURSIVE TextOf(_)
TextOf(raw) ==
    IF raw = << >> THEN << >>
    ELSE IF Head(raw) = "0xC2" THEN << "U+00A0" >> \o TextOf(Tail(Tail(raw)))
    ELSE << Head(raw) >> \o TextOf(Tail(raw))

IsBlankChar(c) ==
    c \in { " ", "\t", "\n", "\r", "\f", "U+000B", "U+0085", "U+00A0" }

\* The text between the first and the last non-blank character.
Trimmed(s) ==
    LET solid == { i \in 1 .. Len(s) : ~IsBlankChar(s[i]) } IN
    IF solid = { } THEN << >>
    ELSE LET first == CHOOSE i \in solid : \A j \in solid : i <= j
             last == CHOOSE i \in solid : \A j \in solid : j <= i
         IN  SubSeq(s, first, last)

HasHeartbeat(s) ==
    \E i \in 1 .. Len(s) :
        /\ i + 8 <= Len(s)
        /\ s[i] = "h" /\ s[i + 1] = "e" /\ s[i + 2] = "a" /\ s[i + 3] = "r"
        /\ s[i + 4] = "t" /\ s[i + 5] = "b" /\ s[i + 6] = "e" /\ s[i + 7] = "a"
        /\ s[i + 8] = "t"

\* What the probe prints for a sequence of decodable raw lines.
RECURSIVE ExpectedLines(_)
ExpectedLines(raws) ==
    IF raws = << >> THEN << >>
    ELSE LET t == Trimmed(TextOf(Head(raws))) IN
         ( IF t = << >> THEN << >>
           ELSE IF HasHeartbeat(t)
           THEN << << "R", "e", "c", "e", "i", "v", "e", "d", ":", " " >>
                       \o t \o << "\n" >>,
                   << "S", "S", "E", " ", "t", "e", "s", "t", " ", "s", "u", "c",
                      "c", "e", "s", "s", "f", "u", "l", "!", "\n" >> >>
           ELSE << << "R", "e", "c", "e", "i", "v", "e", "d", ":", " " >>
                       \o t \o << "\n" >> >> )
         \o ExpectedLines(Tail(raws))

\* The lines the loop body has run for: all but one that failed to decode.
Processed ==
    IF pfault = "UnicodeDecodeError" THEN SubSeq(lines, 1, Len(lines) - 1)
    ELSE lines

\* C8: the probe prints the status line, then the headers line, each once and
\* before any line output; then for each body line in order nothing if the
\* trimmed line is empty, otherwise "Received: <trimmed line>", followed by
\* the success message exactly when the trimmed line contains "heartbeat";
\* lines after a heartbeat are still printed, and the loop has ended without
\* a failure only when the server closed the stream.
C8_ProbeOutput ==
    /\ ppc = "connect" => pout = << >>
    /\ pfault = "ClientError" => pout = << >> /\ lines = << >>
    /\ (ppc # "connect" /\ pfault # "ClientError") =>
          /\ Len(pout) >= 2
          /\ \E code \in { << "2", "0", "0" >>, << "5", "0", "3" >> } :
                pout[1] = << "S", "t", "a", "t", "u", "s", ":", " " >> \o code
                              \o << "\n" >>
          /\ IsPrefix(<< "H", "e", "a", "d", "e", "r", "s", ":", " ", "<", "C", "I" >>,
                      pout[2])
          /\ SubSeq(pout, 3, Len(pout)) = ExpectedLines(Processed)
    /\ ppc = "reading" => ~closed /\ pfault = "none"
    /\ (ppc = "done" /\ pfault = "none") => closed

C8_Witness ==
    /\ ppc = "done"
    /\ closed
    /\ pfault = "none"
    /\ lines = << << "\n" >>,
                  << "d", "a", "t", "a", ":", " ", "h", "e", "a", "r", "t", "b",
                     "e", "a", "t", "\n" >>,
                  << "\n" >>,
                  << "d", "a", "t", "a", ":", " ", "t", "i", "c", "k", "\n" >> >>
    /\ Len(pout) = 5
    /\ pout[3] = << "R", "e", "c", "e", "i", "v", "e", "d", ":", " ", "d", "a",
                    "t", "a", ":", " ", "h", "e", "a", "r", "t", "b", "e", "a",
                    "t", "\n" >>
    /\ pout[4] = << "S", "S", "E", " ", "t", "e", "s", "t", " ", "s", "u", "c",
                    "c", "e", "s", "s", "f", "u", "l", "!", "\n" >>
    /\ pout[5] = << "R", "e", "c", "e", "i", "v", "e", "d", ":", " ", "d", "a",
                    "t", "a", ":", " ", "t", "i", "c", "k", "\n" >>

\* After EOFError: one prompt more than inputs read, and nothing else added.
C9_Ended ==
    fault = "EOFError" =>
        /\ pc \in { "unwinding", "done" }
        /\ prompts = Len(questions) + 1
        /\ calls = Len(questions)
        /\ Len(context) = 1 + Len(questions) + NumOk
        /\ Len(stdout) = 1 + NumOk

\* C9: when input is exhausted at the prompt the failure leaves the loop:
\* that step appends no entry, starts no agent call and prints nothing, and
\* from then on the loop is never in AwaitingInput or AwaitingAgentResponse
\* again and the transcript, the calls and the output stay as they were.
C9_InputExhaustedEndsSession ==
    /\ []C9_Ended
    /\ [][(prompts' # prompts /\ questions' = questions) =>
             /\ pc = "AwaitingInput"
             /\ pc' = "unwinding"
             /\ fault' = "EOFError"
             /\ context' = context
             /\ calls' = calls
             /\ stdout' = stdout]_vars
    /\ [][(pc = "unwinding" \/ pc = "done") =>
             /\ pc' \in { "unwinding", "done" }
             /\ context' = context
             /\ questions' = questions
             /\ calls' = calls
             /\ stdout' = stdout]_vars

C9_Witness ==
    /\ fault = "EOFError"
    /\ pc = "done"
    /\ outcomes = << "ok", "fail" >>
    /\ prompts = 3

\* C10: once the loop has started, the transcript is non-empty, its first
\* entry is the SYSTEM seed and no other entry is a SYSTEM entry; every
\* ASSISTANT entry directly follows a USER entry; there are as many
\* ASSISTANT entries as successful calls and as many USER entries as inputs
\* read; and while waiting for input the last entry is the seed, an
\* ASSISTANT entry, or the USER entry of a failed cycle.
C10_TranscriptStructure ==
    Running =>
        /\ context # << >>
        /\ context[1] = SystemSeed
        /\ Role(context[1]) = "SYSTEM"
        /\ \A i \in 2 .. Len(context) : Role(context[i]) \in { "USER", "ASSISTANT" }
        /\ \A i \in 1 .. Len(context) :
              IsAssistant(context[i]) => i > 1 /\ IsUser(context[i - 1])
        /\ Len(SelectSeq(context, IsAssistant)) = NumOk
        /\ Len(SelectSeq(context, IsUser)) = Len(questions)
        /\ pc = "AwaitingInput" =>
              \/ Len(context) = 1
              \/ IsAssistant(context[Len(context)])
              \/ /\ IsUser(context[Len(context)])
                 /\ outcomes # << >>
                 /\ outcomes[Len(outcomes)] = "fail"

C10_Witness ==
    /\ pc = "AwaitingInput"
    /\ outcomes = << "ok", "fail", "fail" >>
    /\ Len(context) = 5
    /\ questions[1] = << "U", "S", "E", "R", ":", " ", "x" >>
    /\ finals[1] = << "o", "k", "\n", "\n", "U", "S", "E", "R", ":", " ", "x" >>

====
